---- MODULE Spec2Model ----
(***************************************************************************)
(* DreamTrue: evidence-weighted retrieval (vector_store.py) and the        *)
(* six-stage agentic pipeline (agentic_system.py) behind the Flask         *)
(* /interpret handler (web_app.py).                                        *)
(*                                                                         *)
(* Numbers: distances and relevance scores are in tenths (10 = 1.0),       *)
(* credibility weights are in tenths (2 = 0.2), final scores are in        *)
(* hundredths (relevance * (10 + weight)).                                 *)
(* Text that the code only concatenates and measures is a TLA+ string;     *)
(* text that the code splits or strips is a sequence of one-character      *)
(* strings.                                                                *)
(***************************************************************************)
EXTENDS Integers, Sequences, FiniteSets, TLC

VARIABLES
    collection,     \* the Chroma collection: the set of indexed records
    ret,            \* the last retrieval call and what it returned
    graph_aliases,  \* the graph runtime hands a node the channel's own list (not a copy)
    req,            \* the JSON body of the /interpret request being handled
    pc,             \* where the request is: idle, a graph node, END, a RAG step, done
    state,          \* the DreamAnalysisState of the agentic run
    obs,            \* what has run for this request: nodes, step markers, calls, failure
    returned,       \* what the orchestrator's interpret_dream returned
    resp,           \* the HTTP response of the handler
    llm_text,       \* a generated text handed to a parser
    parsed,         \* the last parser call and what it returned
    index,          \* the persist directory's entry for the collection name
    reader,         \* the VectorStoreManager of a querying process
    build,          \* the process running a build script, and its manager
    read,           \* the last query of the reader and what it observed
    app,            \* the web application process: its start-up and what it serves with
    threads,        \* the requests the server is handling at the same time
    states          \* the analysis state (or the locals) each such request works on

retrievalVars == <<collection, ret>>

pipelineVars == <<graph_aliases, req, pc, state, obs, returned, resp>>

parserVars == <<llm_text, parsed>>

indexVars == <<index, reader, build, read>>

serviceVars == <<app, threads, states>>

vars == <<collection, ret, graph_aliases, req, pc, state, obs, returned, resp,
          llm_text, parsed, index, reader, build, read, app, threads, states>>

----------------------------------------------------------------------------
(* Bounds *)

MaxDocs == 2          \* records in the collection of a request
MaxIndexed == 3       \* records in the collection of a retrieval call
MaxResults == 2       \* n_results asked of a retrieval call
MaxLines == 5         \* lines of a generated response text
MaxBuilds == 2        \* runs of a build script
MaxServed == 2        \* requests a started web application answers
MaxConcurrent == 2    \* requests handled at the same time
MaxBatches == 2       \* full batches of a long chunk list

----------------------------------------------------------------------------
(* Helpers *)

None == "None"

Min(a, b) == IF a < b THEN a ELSE b

Take(seq, n) == SubSeq(seq, 1, Min(n, Len(seq)))

\* dict.get(key, default)
MetaGet(m, k, default) == IF k \in DOMAIN m THEN m[k] ELSE default

Digit == <<"0", "1", "2", "3", "4", "5", "6", "7", "8", "9">>

\* str(n) of a non-negative int, as the f-string formats idx+1
RECURSIVE IntToStr(_)
IntToStr(n) ==
    IF n < 10 THEN Digit[n + 1]
    ELSE IntToStr(n \div 10) \o Digit[(n % 10) + 1]

\* sep.join(parts)
RECURSIVE Join(_, _)
Join(parts, sep) ==
    IF parts = <<>> THEN ""
    ELSE IF Len(parts) = 1 THEN parts[1]
    ELSE parts[1] \o sep \o Join(Tail(parts), sep)

\* "".join(parts)
RECURSIVE Concat(_)
Concat(parts) == IF parts = <<>> THEN "" ELSE Head(parts) \o Concat(Tail(parts))

----------------------------------------------------------------------------
(* The corpus: records as add_documents stores them (id, content, metadata) *)

\* The chunks a corpus build can index. A file with an entry in the metadata
\* map carries category, weight and validation; a file without one carries
\* only what the processor itself sets.
CorpusDocs ==
    { [id |-> "R_chunk_0", content |-> "ab",
       metadata |-> [source |-> "R", category |-> "c", weight |-> 2, validation |-> "v"]],
      [id |-> "S_chunk_0", content |-> "ab",
       metadata |-> [source |-> "S", category |-> "c", weight |-> 2, validation |-> "v"]],
      [id |-> "T_chunk_0", content |-> "ab",
       metadata |-> [source |-> "T", category |-> "d", weight |-> 8, validation |-> "v"]],
      [id |-> "U_chunk_0", content |-> "abcdef",
       metadata |-> [source |-> "U"]] }

\* Distances the index can report for a (query, record) pair, in tenths.
\* The collection is created without an hnsw:space setting, so the distance
\* is Chroma's default squared L2, which exceeds 1 for distant vectors.
Distances == {0, 5, 15}

\* Category allow-lists a caller may pass; the empty set stands for both None
\* and [], which "if categories:" treats alike (no filter)
CategoryFilters == {{}, {"c"}, {"c", "d"}}

\* max_tokens values a caller may pass
TokenBudgets == {12, 13, 26, 27, 3000}

----------------------------------------------------------------------------
(* collection.query: nearest neighbours, nearest first *)

Matching(coll, where) ==
    {r \in coll : where = {} \/ MetaGet(r.metadata, "category", None) \in where}

Orderings(S) ==
    {s \in [1..Cardinality(S) -> S] : \A i, j \in 1..Cardinality(S) : i # j => s[i] # s[j]}

NearestFirst(s, d) == \A i \in 1..(Len(s) - 1) : d[s[i]] <= d[s[i + 1]]

\* Every answer the index can give to a query for n neighbours: the query's
\* embedding fixes a distance d per record; the records come back nearest
\* first, records at the same distance in an order the index chooses.
QueryOutcomes(coll, n, where) ==
    LET M == Matching(coll, where)
    IN  UNION { { Take([i \in 1..Len(s) |->
                          [id |-> s[i].id, content |-> s[i].content,
                           metadata |-> s[i].metadata, distance |-> d[s[i]]]], n)
                  : s \in {o \in Orderings(M) : NearestFirst(o, d)} }
                : d \in [M -> Distances] }

----------------------------------------------------------------------------
(* VectorStoreManager.similarity_search *)

RelevanceScore(distance) == 10 - distance

SimilaritySearch(raw) ==
    [i \in 1..Len(raw) |->
        [id |-> raw[i].id, content |-> raw[i].content, metadata |-> raw[i].metadata,
         distance |-> raw[i].distance,
         relevance_score |-> RelevanceScore(raw[i].distance)]]

----------------------------------------------------------------------------
(* VectorStoreManager.hybrid_search *)

\* result['relevance_score'] * (1 + weight), weight defaulting to 0.1
FinalScore(result) ==
    result.relevance_score * (10 + MetaGet(result.metadata, "weight", 1))

WithFinalScore(results) ==
    [i \in 1..Len(results) |->
        [id |-> results[i].id, content |-> results[i].content,
         metadata |-> results[i].metadata, distance |-> results[i].distance,
         relevance_score |-> results[i].relevance_score,
         final_score |-> FinalScore(results[i])]]

\* list.sort(key=final_score, reverse=True): stable, equal keys keep their order
RECURSIVE InsertByFinalScore(_, _)
InsertByFinalScore(sorted, x) ==
    IF sorted = <<>> THEN <<x>>
    ELSE IF Head(sorted).final_score >= x.final_score
         THEN <<Head(sorted)>> \o InsertByFinalScore(Tail(sorted), x)
         ELSE <<x>> \o sorted

\* hybrid_search with the sort left out: the index's order is returned as is
SortByFinalScoreSkipped(results) == results

RECURSIVE SortByFinalScore(_)
SortByFinalScore(results) ==
    IF results = <<>> THEN <<>>
    ELSE InsertByFinalScore(SortByFinalScore(SubSeq(results, 1, Len(results) - 1)),
                            results[Len(results)])

\* filter_dict: {} is "where=None", otherwise {"category": {"$in": categories}}
FilterDict(categories) == categories

\* hybrid_search cutting the candidates to n_results before the sort instead
\* of after it
HybridSearchCutBeforeSort(raw, n_results) ==
    SortByFinalScore(Take(WithFinalScore(SimilaritySearch(raw)), n_results))

HybridSearch(raw, n_results) ==
    Take(SortByFinalScore(WithFinalScore(SimilaritySearch(raw))), n_results)

----------------------------------------------------------------------------
(* VectorStoreManager.get_context_for_query *)

ChunkText(idx, result) ==
    "\n[Source " \o IntToStr(idx + 1) \o ": " \o MetaGet(result.metadata, "source", "Unknown")
    \o " | Category: " \o MetaGet(result.metadata, "category", "general")
    \o " | Validation: " \o MetaGet(result.metadata, "validation", "N/A") \o "]\n"
    \o result.content \o "\n---\n"

\* the loop with "continue" in place of "break": a block that does not fit is
\* passed over and later blocks are still tried
RECURSIVE ContextPartsSkipping(_, _, _, _)
ContextPartsSkipping(results, idx, total_chars, max_chars) ==
    IF idx >= Len(results) THEN <<>>
    ELSE LET chunk_text == ChunkText(idx, results[idx + 1])
             chunk_chars == Len(chunk_text)
         IN  IF total_chars + chunk_chars > max_chars
             THEN ContextPartsSkipping(results, idx + 1, total_chars, max_chars)
             ELSE <<chunk_text>>
                  \o ContextPartsSkipping(results, idx + 1, total_chars + chunk_chars,
                                          max_chars)

\* the for loop over enumerate(results): idx is 0-based
RECURSIVE ContextParts(_, _, _, _)
ContextParts(results, idx, total_chars, max_chars) ==
    IF idx >= Len(results) THEN <<>>
    ELSE LET chunk_text == ChunkText(idx, results[idx + 1])
             chunk_chars == Len(chunk_text)
         IN  IF total_chars + chunk_chars > max_chars THEN <<>>
             ELSE <<chunk_text>>
                  \o ContextParts(results, idx + 1, total_chars + chunk_chars, max_chars)

MaxChars(max_tokens) == max_tokens * 4

FormattedContext(context_parts) == Join(context_parts, "\n")

ReturnedSources(results, context_parts) == results

\* (formatted_context, results) and the loop's context_parts, kept for inspection
GetContextForQuery(results, max_tokens) ==
    LET context_parts == ContextParts(results, 0, 0, MaxChars(max_tokens))
    IN  [context_parts |-> context_parts,
         context |-> FormattedContext(context_parts),
         sources |-> ReturnedSources(results, context_parts)]

----------------------------------------------------------------------------
(* The record of a retrieval call *)

NoCall ==
    [op |-> "none", n_results |-> 0, max_chars |-> 0, categories |-> {},
     fetched |-> <<>>, results |-> <<>>, context_parts |-> <<>>, context |-> "",
     sources |-> <<>>]

----------------------------------------------------------------------------
(* Text helpers for text the code strips and splits (sequences of characters) *)

Whitespace == {" ", "\n", "\t"}

\* str.strip()
RECURSIVE LStrip(_)
LStrip(s) == IF s # <<>> /\ Head(s) \in Whitespace THEN LStrip(Tail(s)) ELSE s

RECURSIVE RStrip(_)
RStrip(s) ==
    IF s # <<>> /\ s[Len(s)] \in Whitespace THEN RStrip(SubSeq(s, 1, Len(s) - 1)) ELSE s

Strip(s) == RStrip(LStrip(s))

\* str.split(sep) for a one-character sep: "".split(",") is [""]
RECURSIVE SplitFrom(_, _, _)
SplitFrom(s, sep, cur) ==
    IF s = <<>> THEN <<cur>>
    ELSE IF Head(s) = sep THEN <<cur>> \o SplitFrom(Tail(s), sep, <<>>)
    ELSE SplitFrom(Tail(s), sep, Append(cur, Head(s)))

Split(s, sep) == SplitFrom(s, sep, <<>>)

----------------------------------------------------------------------------
(* The /interpret request body (web_app.py, simple_web_app.py) *)

Absent == [t |-> "absent"]
Null == [t |-> "null"]
Str(chars) == [t |-> "str", v |-> chars]

EmptyDict == <<>>

\* JSON bodies a client may post
RequestBodies ==
    [dream_text : {Absent, Null, Str(<<>>), Str(<<" ">>), Str(<<" ", "d">>)},
     system : {"rag", "agentic"},
     age : {Null, Str(<<"3">>), Str(<<"x">>)},
     gender : {Absent, Null, Str(<<"f">>)},
     recent_events : {Absent, Null, Str(<<"e">>)}]

\* data.get(key, '') : the default applies only to an absent key
GetOrEmpty(field) == IF field.t = "absent" THEN Str(<<>>) ELSE field

\* data.get(key, '').strip() raises AttributeError on a JSON null
StripRaises(field) == GetOrEmpty(field).t = "null"

Stripped(field) == Strip(GetOrEmpty(field).v)

\* int(age) of a string: the digit strings parse, anything else is a ValueError
IntOfDigit == [c \in {"0", "1", "2", "3", "4", "5", "6", "7", "8", "9"} |->
                 CHOOSE n \in 0..9 : Digit[n + 1] = c]

IsDigits(chars) == chars # <<>> /\ \A i \in 1..Len(chars) : chars[i] \in DOMAIN IntOfDigit

RECURSIVE ParseInt(_)
ParseInt(chars) ==
    IF chars = <<>> THEN 0
    ELSE ParseInt(SubSeq(chars, 1, Len(chars) - 1)) * 10 + IntOfDigit[chars[Len(chars)]]

\* the handler's "Build user context" block
BuildUserContext(data) ==
    LET age == IF data.age.t = "str" /\ data.age.v # <<>> /\ IsDigits(Strip(data.age.v))
               THEN "age" :> ParseInt(Strip(data.age.v)) ELSE EmptyDict
        gender == IF Stripped(data.gender) # <<>>
                  THEN "gender" :> Stripped(data.gender) ELSE EmptyDict
        events == IF Stripped(data.recent_events) # <<>>
                  THEN "recent_life_events" :> Stripped(data.recent_events) ELSE EmptyDict
    IN  age @@ gender @@ events

\* the handler with its validation left out
DreamTextNeverMissing(dream_text) == FALSE

\* "if not dream_text": the validation of the handler
DreamTextMissing(dream_text) == dream_text = <<>>

NoResponse == [status |-> 0, success |-> FALSE, system |-> "none", sources_count |-> 0,
               agent_steps |-> 0]

ValidationError == [NoResponse EXCEPT !.status = 400]

\* the handler's "except Exception" clause
ServerError == [NoResponse EXCEPT !.status = 500]

----------------------------------------------------------------------------
(* DreamAnalysisState and the compiled workflow (agentic_system.py) *)

\* DreamAnalysisState(...) as interpret_dream builds it
InitialState(dream_text, user_context) ==
    [dream_text |-> dream_text,
     user_context |-> user_context,
     dream_symbols |-> <<>>,
     research_context |-> "",
     retrieved_sources |-> <<>>,
     symbol_analysis |-> "",
     psychological_analysis |-> "",
     cultural_analysis |-> "",
     final_interpretation |-> <<>>,
     confidence_score |-> 0,
     reasoning |-> <<>>,
     alternative_interpretations |-> <<>>,
     current_step |-> "start",
     messages |-> <<>>]

\* _build_workflow: entry point and edges
EntryPoint == "symbol_extractor"

Edges ==
    [symbol_extractor |-> "research_retriever",
     research_retriever |-> "symbol_analyzer",
     symbol_analyzer |-> "psychological_analyzer",
     psychological_analyzer |-> "cultural_analyzer",
     cultural_analyzer |-> "synthesis_agent",
     synthesis_agent |-> "END"]

\* _build_workflow with the edge out of symbol_analyzer registered to the
\* cultural analyzer: the psychological stage is skipped
NextNodeSkipping(node) ==
    IF node = "symbol_analyzer" THEN "cultural_analyzer" ELSE Edges[node]

NextNode(node) == Edges[node]

\* messages: Annotated[List[str], operator.add]. A node appends to
\* state['messages'] in place and returns the whole state, so the runtime
\* adds the returned list to the channel's value. That value is the list the
\* node appended to when the runtime handed over the channel's own list, and
\* the list as it was before the node ran when the runtime handed over a copy.
MessagesAfterNode(before, entry, aliases) ==
    LET update == Append(before, entry)
    IN  (IF aliases THEN update ELSE before) \o update

\* Texts the generation capability may answer with
SymbolResponses ==
    {<<>>, <<"a">>, <<"a", ",", " ", "b">>,
     <<"a", ",", "b", ",", "c", ",", "d", ",", "e", ",", "f">>}

\* ' '.join(parts) for parts that are sequences of characters
RECURSIVE JoinWords(_)
JoinWords(parts) ==
    IF parts = <<>> THEN <<>>
    ELSE IF Len(parts) = 1 THEN parts[1]
    ELSE parts[1] \o <<" ">> \o JoinWords(Tail(parts))

\* search_query of retrieve_research_agent
SearchQuery(dream_text, dream_symbols) ==
    dream_text \o <<" ">> \o JoinWords(Take(dream_symbols, 5))

AnalysisTexts == {"", "x"}

\* arguments of get_context_for_query
AgenticMaxTokens == 4000
AgenticNResults == 7
RagMaxTokens == 3000
RagNSources == 5

\* The keys of user_context that the two prompts read
PromptKeys == {"stress_level", "emotional_state", "recent_events"}

\* user_context.get(key, default): the caller's value or the default text
ContextGet(user_context, key, default) ==
    IF key \in DOMAIN user_context
    THEN [t |-> "given", v |-> user_context[key]]
    ELSE [t |-> "default", v |-> default]

\* no prompt with a user-context part has been built
NoUserInfo == [built |-> FALSE, stress_level |-> [t |-> "none"],
               emotional_state |-> [t |-> "none"], recent_events |-> [t |-> "none"]]

\* The user-context part of a prompt: empty for a missing or empty
\* user_context, otherwise the three values read from it; events_default is
\* the default of the "Recent Events" line
UserInfo(user_context, events_default) ==
    IF DOMAIN user_context = {}
    THEN [NoUserInfo EXCEPT !.built = TRUE]
    ELSE [built |-> TRUE,
          stress_level |-> ContextGet(user_context, "stress_level", "unknown"),
          emotional_state |-> ContextGet(user_context, "emotional_state", "unknown"),
          recent_events |-> ContextGet(user_context, "recent_events", events_default)]

NoObs == [executed |-> <<>>, steps |-> <<>>, llm_calls |-> 0, retrieval_calls |-> 0,
          failed_at |-> "none", symbols_text |-> <<>>, search_query |-> <<>>,
          user_info |-> NoUserInfo]

NoResult == [kind |-> "none", sources_used |-> <<>>, agent_trace |-> <<>>,
             interpretation |-> <<>>, confidence_score |-> 0, reasoning |-> <<>>,
             alternative_interpretations |-> <<>>]

NoBody == [dream_text |-> Absent, system |-> "rag", age |-> Null, gender |-> Absent,
           recent_events |-> Absent]

\* no parser call is recorded
NoParse == [op |-> "none"]

ParserIdle ==
    /\ llm_text = <<>>
    /\ parsed = NoParse

PipelineIdle ==
    /\ req = NoBody
    /\ pc = "idle"
    /\ state = InitialState(<<>>, EmptyDict)
    /\ obs = NoObs
    /\ returned = NoResult
    /\ resp = NoResponse

\* A node that catches the exception of its call and lets the run go on
AbortSwallowed(node) ==
    /\ pc' = IF node \in DOMAIN Edges THEN Edges[node]
             ELSE IF node = "rag_retrieve" THEN "rag_generate" ELSE "done"
    /\ obs' = [obs EXCEPT !.failed_at = node]
    /\ UNCHANGED <<state, returned, resp>>

\* What an exception raised inside a node does: it leaves workflow.invoke and
\* interpret_dream and reaches the handler's except clause, which answers 500.
\* No node runs after it and no response object is built.
AbortRequest(node) ==
    /\ pc' = "done"
    /\ obs' = [obs EXCEPT !.failed_at = node]
    /\ resp' = ServerError
    /\ UNCHANGED <<state, returned>>

\* A node that finished: the step marker it set is recorded and the edge out
\* of it is followed.
Ran(node, llm, retrieval) ==
    [obs EXCEPT !.executed = Append(@, node),
                !.steps = Append(@, state'.current_step),
                !.llm_calls = @ + llm,
                !.retrieval_calls = @ + retrieval]

----------------------------------------------------------------------------
(* Parsing the generated text (rag_pipeline.py, agentic_system.py) *)

LowerCase ==
    <<"a", "b", "c", "d", "e", "f", "g", "h", "i", "j", "k", "l", "m",
      "n", "o", "p", "q", "r", "s", "t", "u", "v", "w", "x", "y", "z">>

UpperCase ==
    <<"A", "B", "C", "D", "E", "F", "G", "H", "I", "J", "K", "L", "M",
      "N", "O", "P", "Q", "R", "S", "T", "U", "V", "W", "X", "Y", "Z">>

\* str.upper()
UpperChar(c) ==
    IF \E i \in 1..26 : LowerCase[i] = c
    THEN UpperCase[CHOOSE i \in 1..26 : LowerCase[i] = c]
    ELSE c

Upper(s) == [i \in 1..Len(s) |-> UpperChar(s[i])]

\* s[a:b] and s[a:] for indexes that are not negative
Slice(s, a, b) == SubSeq(s, a + 1, Min(b, Len(s)))

SliceFrom(s, a) == SubSeq(s, a + 1, Len(s))

\* s.find(pat): the lowest index at which pat starts in s, -1 when it is not in s
Find(s, pat) ==
    LET hits == {i \in 0..(Len(s) - Len(pat)) : SubSeq(s, i + 1, i + Len(pat)) = pat}
    IN  IF hits = {} THEN -1 ELSE CHOOSE i \in hits : \A j \in hits : i <= j

\* pat in s
Contains(s, pat) == Find(s, pat) # -1

\* s.replace(pat, "")
RECURSIVE Remove(_, _)
Remove(s, pat) ==
    LET i == Find(s, pat)
    IN  IF i = -1 THEN s
        ELSE SubSeq(s, 1, i) \o Remove(SliceFrom(s, i + Len(pat)), pat)

\* re.search(r'(\d+)%', s).group(1): the leftmost run of digits that a "%"
\* follows; <<>> when the search finds nothing
PercentMatch(s) ==
    LET ends(i) == {j \in i..(Len(s) - 1) :
                      /\ \A k \in i..j : s[k] \in DOMAIN IntOfDigit
                      /\ s[j + 1] = "%"}
        starts == {i \in 1..Len(s) : ends(i) # {}}
    IN  IF starts = {} THEN <<>>
        ELSE LET i == CHOOSE a \in starts : \A b \in starts : a <= b
             IN  SubSeq(s, i, CHOOSE j \in ends(i) : TRUE)

\* The literals of the two parsers
PRIMARY_INTERPRETATION ==
    <<"P", "R", "I", "M", "A", "R", "Y", " ", "I", "N", "T", "E", "R", "P",
      "R", "E", "T", "A", "T", "I", "O", "N", ":">>

CONFIDENCE_LEVEL ==
    <<"C", "O", "N", "F", "I", "D", "E", "N", "C", "E", " ", "L", "E", "V",
      "E", "L", ":">>

CONFIDENCE ==
    <<"C", "O", "N", "F", "I", "D", "E", "N", "C", "E", ":">>

SCIENTIFIC_EVIDENCE ==
    <<"S", "C", "I", "E", "N", "T", "I", "F", "I", "C", " ", "E", "V", "I",
      "D", "E", "N", "C", "E", ":">>

REASONING ==
    <<"R", "E", "A", "S", "O", "N", "I", "N", "G", ":">>

ALTERNATIVE_INTERPRETATION ==
    <<"A", "L", "T", "E", "R", "N", "A", "T", "I", "V", "E", " ", "I", "N",
      "T", "E", "R", "P", "R", "E", "T", "A", "T", "I", "O", "N">>

ALTERNATIVE_INTERPRETATIONS ==
    <<"A", "L", "T", "E", "R", "N", "A", "T", "I", "V", "E", " ", "I", "N",
      "T", "E", "R", "P", "R", "E", "T", "A", "T", "I", "O", "N", "S", ":">>

SOURCES_CITED ==
    <<"S", "O", "U", "R", "C", "E", "S", " ", "C", "I", "T", "E", "D", ":">>

SOURCES ==
    <<"S", "O", "U", "R", "C", "E", "S", ":">>

High ==
    <<"H", "i", "g", "h">>

Low ==
    <<"L", "o", "w">>

MediumFifty ==
    <<"M", "e", "d", "i", "u", "m", " ", "-", " ", "5", "0", "%">>

SynthesizedFromPerspectives ==
    <<"S", "y", "n", "t", "h", "e", "s", "i", "z", "e", "d", " ", "f", "r",
      "o", "m", " ", "m", "u", "l", "t", "i", "p", "l", "e", " ", "a", "n",
      "a", "l", "y", "t", "i", "c", "a", "l", " ", "p", "e", "r", "s", "p",
      "e", "c", "t", "i", "v", "e", "s">>

\* Confidence scores are in hundredths (85 = 0.85).

\* sections with a confidence text that starts empty
SectionsWithEmptyConfidence ==
    [primary_interpretation |-> <<>>,
     confidence |-> <<>>,
     scientific_evidence |-> <<>>,
     reasoning |-> <<>>,
     alternative_interpretations |-> <<>>,
     sources_cited |-> <<>>]

\* sections, as _parse_llm_response initialises it
Sections ==
    [primary_interpretation |-> <<>>,
     confidence |-> MediumFifty,
     scientific_evidence |-> <<>>,
     reasoning |-> <<>>,
     alternative_interpretations |-> <<>>,
     sources_cited |-> <<>>]

\* The chain of header tests on line.strip().upper(): the section the line
\* opens, None when the line is no header
HeaderOf(line_upper) ==
    IF Contains(line_upper, PRIMARY_INTERPRETATION) THEN "primary_interpretation"
    ELSE IF Contains(line_upper, CONFIDENCE_LEVEL) \/ Contains(line_upper, CONFIDENCE)
    THEN "confidence"
    ELSE IF Contains(line_upper, SCIENTIFIC_EVIDENCE) THEN "scientific_evidence"
    ELSE IF Contains(line_upper, REASONING) THEN "reasoning"
    ELSE IF Contains(line_upper, ALTERNATIVE_INTERPRETATION)
    THEN "alternative_interpretations"
    ELSE IF Contains(line_upper, SOURCES_CITED) \/ Contains(line_upper, SOURCES)
    THEN "sources_cited"
    ELSE None

NumberedPrefixes ==
    {<<"1", ".">>, <<"2", ".">>, <<"3", ".">>, <<"4", ".">>, <<"5", ".">>}

\* the loop over the lines of the response
RECURSIVE ParseLines(_, _, _, _)
ParseLines(lines, i, current_section, sections) ==
    IF i > Len(lines) THEN sections
    ELSE
      LET line == lines[i]
          header == HeaderOf(Upper(Strip(line)))
      IN  IF header # None THEN ParseLines(lines, i + 1, header, sections)
          ELSE IF current_section # None /\ Strip(line) # <<>>
          THEN IF current_section = "alternative_interpretations"
               THEN IF Slice(Strip(line), 0, 2) \in NumberedPrefixes
                    THEN ParseLines(lines, i + 1, current_section,
                           [sections EXCEPT !.alternative_interpretations =
                               Append(@, Strip(SliceFrom(Strip(line), 3)))])
                    ELSE ParseLines(lines, i + 1, current_section, sections)
               ELSE ParseLines(lines, i + 1, current_section,
                      [sections EXCEPT ![current_section] = @ \o Strip(line) \o <<" ">>])
          ELSE ParseLines(lines, i + 1, current_section, sections)

\* "Clean up sections": every string section is stripped
CleanUp(sections) ==
    [key \in DOMAIN sections |->
        IF key = "alternative_interpretations" THEN sections[key]
        ELSE Strip(sections[key])]

\* "Extract confidence score" of _parse_llm_response
ConfidenceScore(confidence_text) ==
    IF Contains(confidence_text, <<"%">>)
    THEN IF PercentMatch(confidence_text) # <<>>
         THEN ParseInt(PercentMatch(confidence_text))
         ELSE 50
    ELSE IF Contains(confidence_text, High) THEN 85
    ELSE IF Contains(confidence_text, Low) THEN 35
    ELSE 50

\* RAGPipeline._parse_llm_response
ParseLlmResponse(response_text) ==
    LET sections == CleanUp(ParseLines(Split(response_text, "\n"), 1, None, Sections))
    IN  sections @@ ("confidence_score" :> ConfidenceScore(sections.confidence))

\* "Extract confidence score" of synthesis_agent
SynthesisConfidence(synthesis) ==
    IF Contains(synthesis, High) /\ Contains(synthesis, <<"%">>) THEN 85
    ELSE IF Contains(synthesis, Low) /\ Contains(synthesis, <<"%">>) THEN 40
    ELSE 70

\* "Extract alternatives (simplified)": the loop of synthesis_agent
RECURSIVE AlternativeLines(_, _, _, _)
AlternativeLines(lines, i, in_alternatives, alternatives) ==
    IF i > Len(lines) THEN alternatives
    ELSE
      LET line == lines[i]
      IN  IF Contains(Upper(line), ALTERNATIVE_INTERPRETATION)
          THEN AlternativeLines(lines, i + 1, TRUE, alternatives)
          ELSE IF /\ in_alternatives
                  /\ Strip(line) # <<>>
                  /\ Strip(line)[1] \in {"1", "2", "3", "4", "5", "6", "7", "8", "9"}
          THEN AlternativeLines(lines, i + 1, in_alternatives,
                                Append(alternatives, SliceFrom(Strip(line), 3)))
          ELSE AlternativeLines(lines, i + 1, in_alternatives, alternatives)

SynthesisAlternatives(synthesis) ==
    Take(AlternativeLines(Split(synthesis, "\n"), 1, FALSE, <<>>), 3)

\* "Extract reasoning" of synthesis_agent
SynthesisReasoning(synthesis) ==
    LET reasoning_start == Find(synthesis, REASONING)
        reasoning_end == Find(synthesis, ALTERNATIVE_INTERPRETATIONS)
    IN  IF reasoning_start # -1 /\ reasoning_end # -1
        THEN Strip(Remove(Slice(synthesis, reasoning_start, reasoning_end), REASONING))
        ELSE SynthesizedFromPerspectives

\* "Parse synthesis response": what synthesis_agent writes into the state
ParseSynthesis(synthesis) ==
    [final_interpretation |-> synthesis,
     confidence_score |-> SynthesisConfidence(synthesis),
     alternative_interpretations |-> SynthesisAlternatives(synthesis),
     reasoning |-> SynthesisReasoning(synthesis)]

\* Lines the generation capability may answer with
LineConfidenceHeader ==
    <<"C", "o", "n", "f", "i", "d", "e", "n", "c", "e", " ", "L", "e", "v",
      "e", "l", ":">>

LineHighNinety ==
    <<"H", "i", "g", "h", " ", "-", " ", "9", "0", "%">>

LineLowOverHundred ==
    <<"L", "o", "w", " ", "-", " ", "1", "5", "0", "%">>

LineReasoningHeader ==
    <<"R", "E", "A", "S", "O", "N", "I", "N", "G", ":">>

LineAlternativesHeader ==
    <<"A", "L", "T", "E", "R", "N", "A", "T", "I", "V", "E", " ", "I", "N",
      "T", "E", "R", "P", "R", "E", "T", "A", "T", "I", "O", "N", "S", ":">>

LineNumbered ==
    <<"1", ".", " ", "a">>

LinePool ==
    {LineConfidenceHeader, LineHighNinety, LineLowOverHundred, LineReasoningHeader,
     LineAlternativesHeader, LineNumbered}

\* "\n".join of lines of characters
RECURSIVE JoinLines(_)
JoinLines(lines) ==
    IF Len(lines) = 1 THEN lines[1]
    ELSE lines[1] \o <<"\n">> \o JoinLines(Tail(lines))

\* The response texts: up to MaxLines lines of the pool
ResponseTexts ==
    {JoinLines(lines) : lines \in UNION {[1..n -> LinePool] : n \in 1..MaxLines}}

\* Texts the generation capability may answer the synthesis and the RAG prompt with
GeneratedTexts ==
    {LineNumbered,
     JoinLines(<<LineConfidenceHeader, LineHighNinety, LineReasoningHeader,
                 LineNumbered, LineAlternativesHeader, LineNumbered>>),
     JoinLines(<<LineAlternativesHeader, LineNumbered, LineNumbered, LineNumbered,
                 LineNumbered, LineLowOverHundred>>)}

\* What the two parsers make of these texts
SynthesisParses == [synthesis \in GeneratedTexts |-> ParseSynthesis(synthesis)]

LlmResponseParses == [text \in GeneratedTexts |-> ParseLlmResponse(text)]

----------------------------------------------------------------------------
(* Opening, building and resetting the collection (vector_store.py,         *)
(* build_database.py)                                                       *)

Providers == {"huggingface", "openai"}

\* VectorStoreManager._setup_embedding_function: the embedding function for
\* the requested provider, given whether OPENAI_API_KEY is set
SetupEmbeddingFunction(embedding_provider, api_key) ==
    IF embedding_provider = "openai" /\ api_key
    THEN "OpenAIEmbeddingFunction"
    ELSE "SentenceTransformerEmbeddingFunction"

\* the default and the argument of every VectorStoreManager(...) of the scripts
DefaultProvider == "huggingface"

\* No collection of the name exists in the persist directory
NoCollection ==
    [exists |-> FALSE, created |-> 0, created_with |-> "none", embedded_with |-> "none"]

\* The entry of a collection that an earlier build filled with records
IndexOf(records) ==
    [exists |-> TRUE, created |-> 1,
     created_with |-> SetupEmbeddingFunction(DefaultProvider, FALSE),
     embedded_with |-> IF records = {} THEN "none"
                       ELSE SetupEmbeddingFunction(DefaultProvider, FALSE)]

\* VectorStoreManager._get_or_create_collection, every outcome: an existing
\* collection is returned whatever function it was created with; a Chroma
\* that stores the function with the collection refuses a different one, and
\* the create_collection of the except branch then fails on the existing name.
\* A missing collection is created empty.
GetOrCreateCollection(idx, records, embedding_function) ==
    IF idx.exists
    THEN {[index |-> idx, records |-> records, collection |-> idx.created,
           raised |-> FALSE]}
         \cup (IF idx.created_with # embedding_function
               THEN {[index |-> idx, records |-> records, collection |-> 0,
                      raised |-> TRUE]}
               ELSE {})
    ELSE {[index |-> [exists |-> TRUE, created |-> idx.created + 1,
                      created_with |-> embedding_function, embedded_with |-> "none"],
           records |-> {}, collection |-> idx.created + 1, raised |-> FALSE]}

\* A manager's self.collection still names the collection in the directory
Reachable(idx, handle) == idx.exists /\ handle = idx.created

\* A text embedded by this function can be compared with the stored vectors
\* (384 dimensions for all-MiniLM-L6-v2, 1536 for text-embedding-3-small)
SameDimension(idx, embedding_function) ==
    idx.embedded_with \in {"none", embedding_function}

Chunk(id) == CHOOSE r \in CorpusDocs : r.id = id

\* The same chunk of a file whose text changed since the last build
Revised(chunk) == [chunk EXCEPT !.content = "abcdef"]

\* Chunk k of a long document D, as process_document numbers its chunks
LongChunk(k) ==
    [id |-> "D_chunk_" \o IntToStr(k), content |-> "ab", metadata |-> [source |-> "D"]]

\* The chunks of a document of n chunks, in the order process_directory yields them
LongChunks(n) == [k \in 1..n |-> LongChunk(k - 1)]

\* The chunk lists process_directory may hand to add_documents
ChunkLists ==
    {<<>>,
     <<Chunk("R_chunk_0")>>,
     <<Revised(Chunk("R_chunk_0")), Chunk("T_chunk_0")>>}

Range(seq) == {seq[i] : i \in 1..Len(seq)}

Ids(records) == {r.id : r \in records}

batch_size == 100

\* add_documents handing the whole list to one collection.add
BatchesWhole(documents) == <<documents>>

\* add_documents: the slices [i : i + batch_size] for i in range(0, len, batch_size)
Batches(documents) ==
    [b \in 1..((Len(documents) + batch_size - 1) \div batch_size) |->
        SubSeq(documents, (b - 1) * batch_size + 1, Min(b * batch_size, Len(documents)))]

\* collection.add(ids, documents, metadatas), every outcome: new ids are
\* stored; for an id the collection already holds, Chroma either keeps the
\* stored record and skips the new one or rejects the call, by version.
AddOutcomes(records, batch) ==
    IF Ids(Range(batch)) \cap Ids(records) = {}
    THEN {[records |-> records \cup Range(batch), raised |-> FALSE]}
    ELSE {[records |-> records
                       \cup {r \in Range(batch) : r.id \notin Ids(records)},
           raised |-> FALSE],
          [records |-> records, raised |-> TRUE]}

NoManager == [opened |-> FALSE, embedding_provider |-> "none",
              embedding_function |-> "none", collection |-> 0]

NoBuild == [script |-> "none", pc |-> "idle", runs |-> 0,
            embedding_function |-> "none", collection |-> 0,
            chunks |-> <<>>, pending |-> <<>>, submitted |-> <<>>, previous |-> {},
            failed |-> FALSE]

NoRead == [op |-> "none", raised |-> FALSE, results |-> <<>>, context |-> "",
           embedding_function |-> "none", embedded_with |-> "none",
           reachable |-> TRUE, visible |-> {},
           rebuilding |-> FALSE, previous |-> {}, rebuilt |-> {}]

\* No build is running and no reader has opened the collection
IndexIdle ==
    /\ index = IndexOf(collection)
    /\ reader = NoManager
    /\ build = NoBuild
    /\ read = NoRead

----------------------------------------------------------------------------
(* Start-up of the web application (web_app.py, simple_web_app.py) *)

\* The credentials load_dotenv may put in the environment
Credentials == {"ANTHROPIC_API_KEY", "OPENAI_API_KEY"}

\* RAGPipeline.__init__ with the default provider:
\* anthropic.Anthropic(api_key=os.getenv("ANTHROPIC_API_KEY")) builds a client
\* whether or not the key is set; a missing key shows at the first request
RagClient(env) ==
    IF "ANTHROPIC_API_KEY" \in env THEN "configured" ELSE "unconfigured"

\* DreamInterpreterAgents.__init__ with the default provider:
\* ChatAnthropic(anthropic_api_key=os.getenv("ANTHROPIC_API_KEY")). Given None
\* the integration package, by version, takes an empty key or rejects the
\* argument; __init__ itself checks nothing.
ChatModels(env) ==
    IF "ANTHROPIC_API_KEY" \in env THEN {"configured"} ELSE {"unconfigured", "raised"}

\* "if not os.getenv(ANTHROPIC_API_KEY) and not os.getenv(OPENAI_API_KEY)"
ApiKeyFound(env) == env # {}

\* The process is not running
NoApp == [pc |-> "down", env |-> {}, embedding_function |-> "none",
          rag_system |-> "none", agentic_system |-> "none",
          served |-> 0, status |-> 0]

\* What a request answers when its orchestrator's client is as given: with
\* credentials the call succeeds or fails, without them it fails (500)
Answers(client) == IF client = "configured" THEN {200, 500} ELSE {500}

----------------------------------------------------------------------------
(* Requests handled at the same time on the shared orchestrators *)

Requests == 1..MaxConcurrent

\* The keys of DreamAnalysisState that carry data of the request
StateFields ==
    {"dream_text", "user_context", "dream_symbols", "research_context",
     "retrieved_sources", "symbol_analysis", "psychological_analysis",
     "cultural_analysis", "final_interpretation", "confidence_score", "reasoning",
     "alternative_interpretations", "messages"}

\* The fields of DreamAnalysisState a node assigns, besides current_step and
\* messages.
OutputFields(node) ==
    CASE node = "symbol_extractor" -> {"dream_symbols"}
      [] node = "research_retriever" -> {"research_context", "retrieved_sources"}
      [] node = "symbol_analyzer" -> {"symbol_analysis"}
      [] node = "psychological_analyzer" -> {"psychological_analysis"}
      [] node = "cultural_analyzer" -> {"cultural_analysis"}
      [] node = "synthesis_agent" -> {"final_interpretation", "confidence_score",
                                      "alternative_interpretations", "reasoning"}

StepAndTrace == {"current_step", "messages"}

\* The keys of the state a node puts into its prompt or its query
InputFields(node) ==
    CASE node = "symbol_extractor" -> {"dream_text"}
      [] node = "research_retriever" -> {"dream_text", "dream_symbols"}
      [] node = "symbol_analyzer" -> {"dream_text", "dream_symbols", "research_context"}
      [] node = "psychological_analyzer" ->
             {"user_context", "dream_text", "symbol_analysis", "research_context"}
      [] node = "cultural_analyzer" -> {"dream_text", "dream_symbols", "research_context"}
      [] node = "synthesis_agent" ->
             {"dream_text", "symbol_analysis", "psychological_analysis",
              "cultural_analysis"}

\* The keys of the final state that interpret_dream copies into the response
ResultFields ==
    {"final_interpretation", "confidence_score", "symbol_analysis",
     "psychological_analysis", "cultural_analysis", "reasoning",
     "alternative_interpretations", "retrieved_sources", "messages"}

\* A state is recorded by origin: for each key, the requests whose dream
\* text or context the value under the key was computed from.
NoState == [field \in StateFields |-> {}]

\* initial_state of interpret_dream for the request
FreshState(request) ==
    [field \in StateFields |->
        IF field \in {"dream_text", "user_context"} THEN {request} ELSE {}]

\* the state kept in one place on the shared orchestrator object
StateOnOrchestrator(request) == 1

\* The state object a request's stages work on: initial_state is a local of
\* interpret_dream and workflow.invoke threads it through the nodes, so every
\* call has its own
StateOf(request) == request

Origins(analysis_state, fields) == UNION {analysis_state[field] : field \in fields}

\* the state after a node: its output keys and the trace are computed from
\* the keys it read
AfterNode(analysis_state, node) ==
    [field \in StateFields |->
        IF field \in OutputFields(node)
        THEN Origins(analysis_state, InputFields(node))
        ELSE IF field = "messages"
        THEN analysis_state[field] \cup Origins(analysis_state, InputFields(node))
        ELSE analysis_state[field]]

NoThread == [pc |-> "idle", system |-> "none", status |-> 0, result |-> {}]

\* The web application is down and no request is being handled
ServiceIdle ==
    /\ app = NoApp
    /\ threads = [request \in Requests |-> NoThread]
    /\ states = [request \in Requests |-> NoState]

----------------------------------------------------------------------------
(* The handler: POST /interpret up to the call of the orchestrator *)

Interpret ==
    /\ pc = "idle"
    /\ \E data \in RequestBodies :
        /\ req' = data
        /\ IF StripRaises(data.dream_text) \/ StripRaises(data.gender)
              \/ StripRaises(data.recent_events)
           THEN /\ resp' = ServerError
                /\ pc' = "done"
                /\ UNCHANGED <<state, obs, returned>>
           ELSE IF DreamTextMissing(Stripped(data.dream_text))
           THEN /\ resp' = ValidationError
                /\ pc' = "done"
                /\ UNCHANGED <<state, obs, returned>>
           ELSE IF data.system = "agentic"
           THEN /\ state' = InitialState(Stripped(data.dream_text), BuildUserContext(data))
                /\ obs' = [obs EXCEPT !.steps = <<"start">>]
                /\ pc' = EntryPoint
                /\ UNCHANGED <<returned, resp>>
           ELSE /\ state' = [state EXCEPT !.dream_text = Stripped(data.dream_text),
                                          !.user_context = BuildUserContext(data)]
                /\ pc' = "rag_retrieve"
                /\ UNCHANGED <<obs, returned, resp>>
    /\ UNCHANGED <<serviceVars, parserVars, indexVars, collection, ret, graph_aliases>>

----------------------------------------------------------------------------
(* The six nodes *)

extract_symbols_agent ==
    /\ pc = "symbol_extractor"
    /\ \/ \E symbols_text \in SymbolResponses :
            LET parts == Split(symbols_text, ",")
                symbols == [i \in 1..Len(parts) |-> Strip(parts[i])]
            IN  /\ state' = [state EXCEPT
                      !.dream_symbols = symbols,
                      !.current_step = "symbol_extraction",
                      !.messages = MessagesAfterNode(@,
                          "Extracted " \o IntToStr(Len(symbols)) \o " symbols",
                          graph_aliases)]
                /\ obs' = [Ran("symbol_extractor", 1, 0) EXCEPT
                              !.symbols_text = symbols_text]
                /\ pc' = NextNode("symbol_extractor")
                /\ UNCHANGED <<returned, resp>>
       \/ AbortRequest("symbol_extractor")
    /\ UNCHANGED <<serviceVars, parserVars, indexVars, collection, ret, graph_aliases, req>>

retrieve_research_agent ==
    /\ pc = "research_retriever"
    /\ \/ \E raw \in QueryOutcomes(collection, AgenticNResults * 2, FilterDict({})) :
            LET got == GetContextForQuery(HybridSearch(raw, AgenticNResults),
                                          AgenticMaxTokens)
            IN  /\ state' = [state EXCEPT
                      !.research_context = got.context,
                      !.retrieved_sources = got.sources,
                      !.current_step = "research_retrieval",
                      !.messages = MessagesAfterNode(@,
                          "Retrieved " \o IntToStr(Len(got.sources)) \o " research sources",
                          graph_aliases)]
                /\ obs' = [Ran("research_retriever", 0, 1) EXCEPT
                              !.search_query =
                                  SearchQuery(state.dream_text, state.dream_symbols)]
                /\ pc' = NextNode("research_retriever")
                /\ UNCHANGED <<returned, resp>>
       \/ AbortRequest("research_retriever")
    /\ UNCHANGED <<serviceVars, parserVars, indexVars, collection, ret, graph_aliases, req>>

\* The node with one earlier output field cleared on the way: what a stage
\* that rebuilt the state instead of updating it would do.
analyze_symbols_agent_rebuilding_state ==
    /\ pc = "symbol_analyzer"
    /\ \/ \E content \in AnalysisTexts :
            /\ state' = [state EXCEPT
                  !.dream_symbols = <<>>,
                  !.symbol_analysis = content,
                  !.current_step = "symbol_analysis",
                  !.messages = MessagesAfterNode(@, "Completed symbol analysis",
                                                 graph_aliases)]
            /\ obs' = Ran("symbol_analyzer", 1, 0)
            /\ pc' = NextNode("symbol_analyzer")
            /\ UNCHANGED <<returned, resp>>
       \/ AbortRequest("symbol_analyzer")
    /\ UNCHANGED <<serviceVars, parserVars, indexVars, collection, ret, graph_aliases, req>>

analyze_symbols_agent ==
    /\ pc = "symbol_analyzer"
    /\ \/ \E content \in AnalysisTexts :
            /\ state' = [state EXCEPT
                  !.symbol_analysis = content,
                  !.current_step = "symbol_analysis",
                  !.messages = MessagesAfterNode(@, "Completed symbol analysis",
                                                 graph_aliases)]
            /\ obs' = Ran("symbol_analyzer", 1, 0)
            /\ pc' = NextNode("symbol_analyzer")
            /\ UNCHANGED <<returned, resp>>
       \/ AbortRequest("symbol_analyzer")
    /\ UNCHANGED <<serviceVars, parserVars, indexVars, collection, ret, graph_aliases, req>>

psychological_analysis_agent ==
    /\ pc = "psychological_analyzer"
    /\ \/ \E content \in AnalysisTexts :
            /\ state' = [state EXCEPT
                  !.psychological_analysis = content,
                  !.current_step = "psychological_analysis",
                  !.messages = MessagesAfterNode(@, "Completed psychological analysis",
                                                 graph_aliases)]
            /\ obs' = [Ran("psychological_analyzer", 1, 0) EXCEPT
                          !.user_info = UserInfo(state.user_context, "none")]
            /\ pc' = NextNode("psychological_analyzer")
            /\ UNCHANGED <<returned, resp>>
       \/ AbortRequest("psychological_analyzer")
    /\ UNCHANGED <<serviceVars, parserVars, indexVars, collection, ret, graph_aliases, req>>

cultural_analysis_agent ==
    /\ pc = "cultural_analyzer"
    /\ \/ \E content \in AnalysisTexts :
            /\ state' = [state EXCEPT
                  !.cultural_analysis = content,
                  !.current_step = "cultural_analysis",
                  !.messages = MessagesAfterNode(@, "Completed cultural analysis",
                                                 graph_aliases)]
            /\ obs' = Ran("cultural_analyzer", 1, 0)
            /\ pc' = NextNode("cultural_analyzer")
            /\ UNCHANGED <<returned, resp>>
       \/ AbortRequest("cultural_analyzer")
    /\ UNCHANGED <<serviceVars, parserVars, indexVars, collection, ret, graph_aliases, req>>

synthesis_agent ==
    /\ pc = "synthesis_agent"
    /\ \/ \E synthesis \in GeneratedTexts :
            /\ state' = [state EXCEPT
                  !.final_interpretation = SynthesisParses[synthesis].final_interpretation,
                  !.confidence_score = SynthesisParses[synthesis].confidence_score,
                  !.alternative_interpretations =
                      SynthesisParses[synthesis].alternative_interpretations,
                  !.reasoning = SynthesisParses[synthesis].reasoning,
                  !.current_step = "complete",
                  !.messages = MessagesAfterNode(@, "Synthesis complete", graph_aliases)]
            /\ obs' = Ran("synthesis_agent", 1, 0)
            /\ pc' = NextNode("synthesis_agent")
            /\ UNCHANGED <<returned, resp>>
       \/ AbortRequest("synthesis_agent")
    /\ UNCHANGED <<serviceVars, parserVars, indexVars, collection, ret, graph_aliases, req>>

\* workflow.invoke has returned: interpret_dream builds the AgenticResponse
\* and the handler formats the JSON answer.
AgenticReturn ==
    /\ pc = "END"
    /\ returned' = [kind |-> "AgenticResponse",
                  sources_used |-> state.retrieved_sources,
                  agent_trace |-> state.messages,
                  interpretation |-> state.final_interpretation,
                  confidence_score |-> state.confidence_score,
                  reasoning |-> state.reasoning,
                  alternative_interpretations |-> state.alternative_interpretations]
    /\ resp' = [status |-> 200, success |-> TRUE, system |-> "Agentic (6-Agent Analysis)",
                sources_count |-> Len(state.retrieved_sources),
                agent_steps |-> Len(state.messages)]
    /\ pc' = "done"
    /\ UNCHANGED <<serviceVars, parserVars, indexVars, collection, ret, graph_aliases, req, state, obs>>

----------------------------------------------------------------------------
(* RAGPipeline.interpret_dream *)

RagRetrieve ==
    /\ pc = "rag_retrieve"
    /\ \/ \E raw \in QueryOutcomes(collection, RagNSources * 2, FilterDict({})) :
            LET got == GetContextForQuery(HybridSearch(raw, RagNSources), RagMaxTokens)
            IN  /\ state' = [state EXCEPT !.research_context = got.context,
                                          !.retrieved_sources = got.sources]
                /\ obs' = [obs EXCEPT !.retrieval_calls = @ + 1,
                                      !.search_query = state.dream_text]
                /\ pc' = "rag_generate"
                /\ UNCHANGED <<returned, resp>>
       \/ AbortRequest("rag_retrieve")
    /\ UNCHANGED <<serviceVars, parserVars, indexVars, collection, ret, graph_aliases, req>>

RagGenerate ==
    /\ pc = "rag_generate"
    /\ \/ \E text \in GeneratedTexts :
            /\ returned' = [kind |-> "RAGResponse",
                          sources_used |-> state.retrieved_sources,
                          agent_trace |-> <<>>,
                          interpretation |-> LlmResponseParses[text].primary_interpretation,
                          confidence_score |-> LlmResponseParses[text].confidence_score,
                          reasoning |-> LlmResponseParses[text].reasoning,
                          alternative_interpretations |->
                              LlmResponseParses[text].alternative_interpretations]
            /\ resp' = [status |-> 200, success |-> TRUE, system |-> "RAG (Quick Analysis)",
                        sources_count |-> Len(state.retrieved_sources),
                        agent_steps |-> 0]
            /\ obs' = [obs EXCEPT !.llm_calls = @ + 1,
                                  !.user_info = UserInfo(state.user_context,
                                                         "none provided")]
            /\ pc' = "done"
            /\ UNCHANGED state
       \/ AbortRequest("rag_generate")
    /\ UNCHANGED <<serviceVars, parserVars, indexVars, collection, ret, graph_aliases, req>>

\* The response is sent; the next request starts from fresh locals.
RequestDone ==
    /\ pc = "done"
    /\ req' = NoBody
    /\ pc' = "idle"
    /\ state' = InitialState(<<>>, EmptyDict)
    /\ obs' = NoObs
    /\ returned' = NoResult
    /\ resp' = NoResponse
    /\ UNCHANGED <<serviceVars, parserVars, indexVars, collection, ret, graph_aliases>>

PipelineInit ==
    /\ ServiceIdle
    /\ collection \in {c \in SUBSET CorpusDocs : Cardinality(c) <= MaxDocs}
    /\ ret = NoCall
    /\ graph_aliases \in BOOLEAN
    /\ PipelineIdle
    /\ ParserIdle
    /\ IndexIdle

PipelineNext ==
    \/ Interpret
    \/ extract_symbols_agent
    \/ retrieve_research_agent
    \/ analyze_symbols_agent
    \/ psychological_analysis_agent
    \/ cultural_analysis_agent
    \/ synthesis_agent
    \/ AgenticReturn
    \/ RagRetrieve
    \/ RagGenerate
    \/ RequestDone

PipelineSpec == PipelineInit /\ [][PipelineNext]_vars

----------------------------------------------------------------------------
(* Retrieval calls *)

RetrievalInit ==
    /\ ServiceIdle
    /\ collection \in {c \in SUBSET CorpusDocs : Cardinality(c) <= MaxIndexed}
    /\ ret = NoCall
    /\ graph_aliases \in BOOLEAN
    /\ PipelineIdle
    /\ ParserIdle
    /\ IndexIdle

SimilaritySearchCall ==
    /\ ret.op = "none"
    /\ \E n \in 1..MaxResults, where \in CategoryFilters :
      \E raw \in QueryOutcomes(collection, n, FilterDict(where)) :
        /\ ret' = [NoCall EXCEPT !.op = "similarity_search", !.n_results = n,
                                 !.categories = where,
                                 !.fetched = raw,
                                 !.results = SimilaritySearch(raw)]
        /\ UNCHANGED <<serviceVars, parserVars, indexVars, collection, graph_aliases, req, pc, state, obs, returned, resp>>

HybridSearchCall ==
    /\ ret.op = "none"
    /\ \E n \in 1..MaxResults, categories \in CategoryFilters :
      \E raw \in QueryOutcomes(collection, n * 2, FilterDict(categories)) :
        /\ ret' = [NoCall EXCEPT !.op = "hybrid_search", !.n_results = n,
                                 !.categories = categories,
                                 !.fetched = raw,
                                 !.results = HybridSearch(raw, n)]
        /\ UNCHANGED <<serviceVars, parserVars, indexVars, collection, graph_aliases, req, pc, state, obs, returned, resp>>

GetContextCall ==
    /\ ret.op = "none"
    /\ \E n \in 1..MaxResults, max_tokens \in TokenBudgets :
      \E raw \in QueryOutcomes(collection, n * 2, FilterDict({})) :
        LET results == HybridSearch(raw, n)
            got == GetContextForQuery(results, max_tokens)
        IN  /\ ret' = [NoCall EXCEPT !.op = "get_context_for_query", !.n_results = n,
                                     !.max_chars = MaxChars(max_tokens),
                                     !.fetched = raw,
                                     !.results = results,
                                     !.context_parts = got.context_parts,
                                     !.context = got.context,
                                     !.sources = got.sources]
            /\ UNCHANGED <<serviceVars, parserVars, indexVars, collection, graph_aliases, req, pc, state, obs, returned, resp>>

\* The caller takes the returned value; the manager keeps nothing of the call
\* (a Retrieval Result lives only for its query).
RetrievalReturn ==
    /\ ret.op # "none"
    /\ ret' = NoCall
    /\ UNCHANGED <<serviceVars, parserVars, indexVars, collection, graph_aliases, req, pc, state, obs, returned, resp>>

RetrievalNext ==
    SimilaritySearchCall \/ HybridSearchCall \/ GetContextCall \/ RetrievalReturn

RetrievalSpec == RetrievalInit /\ [][RetrievalNext]_vars

----------------------------------------------------------------------------
(* Parser calls *)

ParserInit ==
    /\ ServiceIdle
    /\ collection = {}
    /\ ret = NoCall
    /\ graph_aliases = FALSE
    /\ PipelineIdle
    /\ llm_text \in ResponseTexts
    /\ parsed = NoParse
    /\ IndexIdle

ParseLlmResponseCall ==
    /\ parsed.op = "none"
    /\ parsed' = [op |-> "_parse_llm_response", out |-> ParseLlmResponse(llm_text)]
    /\ UNCHANGED <<serviceVars, indexVars, retrievalVars, pipelineVars, llm_text>>

ParseSynthesisCall ==
    /\ parsed.op = "none"
    /\ parsed' = [op |-> "synthesis_agent", out |-> ParseSynthesis(llm_text)]
    /\ UNCHANGED <<serviceVars, indexVars, retrievalVars, pipelineVars, llm_text>>

\* The caller takes the parsed value; the parser keeps nothing of the call.
ParseReturn ==
    /\ parsed.op # "none"
    /\ parsed' = NoParse
    /\ UNCHANGED <<serviceVars, indexVars, retrievalVars, pipelineVars, llm_text>>

ParserNext == ParseLlmResponseCall \/ ParseSynthesisCall \/ ParseReturn

ParserSpec == ParserInit /\ [][ParserNext]_vars

----------------------------------------------------------------------------
(* A build script and a querying process on one persist directory *)

IndexInit ==
    /\ ServiceIdle
    /\ collection = {}
    /\ ret = NoCall
    /\ graph_aliases = FALSE
    /\ PipelineIdle
    /\ ParserIdle
    /\ index = NoCollection
    /\ reader = NoManager
    /\ build = NoBuild
    /\ read = NoRead

Scripts == {"main", "build_vector_database"}

\* A build script starts: build_database.main (VectorStoreManager(), line 33)
\* or vector_store.build_vector_database (lines 363-366) opens its manager;
\* process_directory yields the chunks.
BuildStart ==
    /\ read.op = "none"
    /\ build.pc = "idle"
    /\ build.runs < MaxBuilds
    /\ \E script \in Scripts, chunks \in ChunkLists :
       \E got \in GetOrCreateCollection(index, collection,
                      SetupEmbeddingFunction(DefaultProvider, FALSE)) :
         /\ index' = got.index
         /\ collection' = got.records
         /\ build' = [NoBuild EXCEPT
                        !.script = script,
                        !.runs = build.runs + 1,
                        !.embedding_function =
                            SetupEmbeddingFunction(DefaultProvider, FALSE),
                        !.collection = got.collection,
                        !.chunks = chunks,
                        !.previous = collection,
                        !.failed = got.raised,
                        !.pc = IF got.raised THEN "done"
                               ELSE IF script = "main" THEN "add"
                               ELSE "count"]
    /\ UNCHANGED <<serviceVars, parserVars, ret, reader, read, pipelineVars>>

\* build_vector_database: "if vector_store.collection.count() > 0"
BuildCount ==
    /\ read.op = "none"
    /\ build.pc = "count"
    /\ build' = [build EXCEPT !.pc = IF Cardinality(collection) > 0 THEN "delete"
                                     ELSE "add"]
    /\ UNCHANGED <<serviceVars, parserVars, retrievalVars, index, reader, read, pipelineVars>>

\* reset_collection, first half: delete_collection inside try/except
BuildResetDelete ==
    /\ read.op = "none"
    /\ build.pc = "delete"
    /\ index' = [index EXCEPT !.exists = FALSE, !.embedded_with = "none"]
    /\ collection' = {}
    /\ build' = [build EXCEPT !.pc = "create"]
    /\ UNCHANGED <<serviceVars, parserVars, ret, reader, read, pipelineVars>>

\* reset_collection, second half: self.collection = self._get_or_create_collection()
BuildResetCreate ==
    /\ read.op = "none"
    /\ build.pc = "create"
    /\ \E got \in GetOrCreateCollection(index, collection, build.embedding_function) :
         /\ index' = got.index
         /\ collection' = got.records
         /\ build' = [build EXCEPT !.collection = got.collection,
                                   !.failed = got.raised,
                                   !.pc = IF got.raised THEN "done" ELSE "add"]
    /\ UNCHANGED <<serviceVars, parserVars, ret, reader, read, pipelineVars>>

\* add_documents up to its loop: nothing to do for an empty list, else the
\* batches are laid out
BuildAddDocuments ==
    /\ read.op = "none"
    /\ build.pc = "add"
    /\ build' = IF build.chunks = <<>>
                THEN [build EXCEPT !.pc = "done"]
                ELSE [build EXCEPT !.pending = Batches(build.chunks), !.pc = "adding"]
    /\ UNCHANGED <<serviceVars, parserVars, retrievalVars, index, reader, read, pipelineVars>>

\* One turn of the loop of add_documents: self.collection.add of a batch.
\* An exception ends the script (main prints it and returns; it leaves
\* build_vector_database uncaught).
BuildAddBatch ==
    /\ read.op = "none"
    /\ build.pc = "adding"
    /\ IF ~Reachable(index, build.collection)
          \/ ~SameDimension(index, build.embedding_function)
       THEN /\ build' = [build EXCEPT !.submitted = Append(@, Head(build.pending)),
                                      !.failed = TRUE, !.pc = "done"]
            /\ UNCHANGED <<collection, index>>
       ELSE \E out \in AddOutcomes(collection, Head(build.pending)) :
              /\ collection' = out.records
              /\ index' = [index EXCEPT !.embedded_with =
                              IF out.records = {} THEN @ ELSE build.embedding_function]
              /\ build' = IF out.raised
                          THEN [build EXCEPT
                                  !.submitted = Append(@, Head(build.pending)),
                                  !.failed = TRUE, !.pc = "done"]
                          ELSE [build EXCEPT
                                  !.submitted = Append(@, Head(build.pending)),
                                  !.pending = Tail(@),
                                  !.pc = IF Tail(build.pending) = <<>> THEN "done"
                                         ELSE "adding"]
    /\ UNCHANGED <<serviceVars, parserVars, ret, reader, read, pipelineVars>>

\* The script ends; its manager goes with the process.
BuildExit ==
    /\ read.op = "none"
    /\ build.pc = "done"
    /\ build' = [NoBuild EXCEPT !.runs = build.runs]
    /\ UNCHANGED <<serviceVars, parserVars, retrievalVars, index, reader, read, pipelineVars>>

\* A querying process starts: VectorStoreManager.__init__ with the requested
\* provider, OPENAI_API_KEY set or not. __init__ raising leaves no manager.
ReaderOpen ==
    /\ read.op = "none"
    /\ \E embedding_provider \in Providers, api_key \in BOOLEAN :
       \E got \in GetOrCreateCollection(index, collection,
                      SetupEmbeddingFunction(embedding_provider, api_key)) :
         /\ index' = got.index
         /\ collection' = got.records
         /\ reader' = IF got.raised THEN NoManager
                      ELSE [opened |-> TRUE,
                            embedding_provider |->
                                IF embedding_provider = "openai" /\ ~api_key
                                THEN "huggingface" ELSE embedding_provider,
                            embedding_function |->
                                SetupEmbeddingFunction(embedding_provider, api_key),
                            collection |-> got.collection]
    /\ UNCHANGED <<serviceVars, parserVars, ret, build, read, pipelineVars>>

RetrievalMethods == {"similarity_search", "hybrid_search", "get_context_for_query"}

\* What the reader's query found the directory to hold
Observed(op) ==
    [NoRead EXCEPT !.op = op,
                   !.embedding_function = reader.embedding_function,
                   !.embedded_with = index.embedded_with,
                   !.reachable = Reachable(index, reader.collection),
                   !.visible = IF Reachable(index, reader.collection)
                               THEN collection ELSE {},
                   !.rebuilding = build.script = "build_vector_database"
                                  /\ build.pc \notin {"idle", "done"},
                   !.previous = build.previous,
                   !.rebuilt = Range(build.chunks)]

\* The reader calls a retrieval method (n_results = 1). self.collection.query
\* embeds the query text with the manager's function and searches the
\* collection the manager holds; nothing on the way catches an exception.
ReaderQuery ==
    /\ read.op = "none"
    /\ reader.opened
    /\ \E op \in RetrievalMethods :
         IF ~Reachable(index, reader.collection)
            \/ ~SameDimension(index, reader.embedding_function)
         THEN read' = [Observed(op) EXCEPT !.raised = TRUE]
         ELSE \E raw \in QueryOutcomes(collection,
                                       IF op = "similarity_search" THEN 1 ELSE 2,
                                       FilterDict({})) :
                read' = [Observed(op) EXCEPT
                    !.results = IF op = "similarity_search" THEN SimilaritySearch(raw)
                                ELSE HybridSearch(raw, 1),
                    !.context = IF op = "get_context_for_query"
                                THEN GetContextForQuery(HybridSearch(raw, 1),
                                                        RagMaxTokens).context
                                ELSE ""]
    /\ UNCHANGED <<serviceVars, parserVars, retrievalVars, index, reader, build, pipelineVars>>

\* The caller has the answer (or the exception).
ReadReturn ==
    /\ read.op # "none"
    /\ read' = NoRead
    /\ UNCHANGED <<serviceVars, parserVars, retrievalVars, index, reader, build, pipelineVars>>

IndexNext ==
    \/ BuildStart
    \/ BuildCount
    \/ BuildResetDelete
    \/ BuildResetCreate
    \/ BuildAddDocuments
    \/ BuildAddBatch
    \/ BuildExit
    \/ ReaderOpen
    \/ ReaderQuery
    \/ ReadReturn

IndexSpec == IndexInit /\ [][IndexNext]_vars

----------------------------------------------------------------------------
(* The web application starts and serves *)

StartupInit ==
    /\ ServiceIdle
    /\ collection \in {c \in SUBSET CorpusDocs : Cardinality(c) <= 1}
    /\ ret = NoCall
    /\ graph_aliases = FALSE
    /\ PipelineIdle
    /\ ParserIdle
    /\ IndexIdle

\* python web_app.py: load_dotenv() has filled the environment
Launch ==
    /\ app.pc = "down"
    /\ \E env \in SUBSET Credentials :
         app' = [NoApp EXCEPT !.pc = "vector_store", !.env = env]
    /\ UNCHANGED <<threads, states, parserVars, indexVars, retrievalVars, pipelineVars>>

\* vector_store = VectorStoreManager()
InitVectorStore ==
    /\ app.pc = "vector_store"
    /\ app' = [app EXCEPT
                 !.embedding_function =
                     SetupEmbeddingFunction(DefaultProvider, "OPENAI_API_KEY" \in app.env),
                 !.pc = "rag_system"]
    /\ UNCHANGED <<threads, states, parserVars, indexVars, retrievalVars, pipelineVars>>

\* rag_system = RAGPipeline(vector_store=vector_store)
InitRagPipeline ==
    /\ app.pc = "rag_system"
    /\ app' = [app EXCEPT !.rag_system = RagClient(app.env), !.pc = "agentic_system"]
    /\ UNCHANGED <<threads, states, parserVars, indexVars, retrievalVars, pipelineVars>>

\* agentic_system = DreamInterpreterAgents(vector_store=vector_store); an
\* exception here ends the import and the process
InitAgents ==
    /\ app.pc = "agentic_system"
    /\ \E llm \in ChatModels(app.env) :
         app' = IF llm = "raised" THEN [app EXCEPT !.pc = "failed"]
                ELSE [app EXCEPT !.agentic_system = llm, !.pc = "main"]
    /\ UNCHANGED <<threads, states, parserVars, indexVars, retrievalVars, pipelineVars>>

\* The main block: exit(1) without any API key or with an empty vector
\* database, otherwise app.run
Main ==
    /\ app.pc = "main"
    /\ app' = IF ~ApiKeyFound(app.env) \/ Cardinality(collection) = 0
              THEN [app EXCEPT !.pc = "failed"]
              ELSE [app EXCEPT !.pc = "serving"]
    /\ UNCHANGED <<threads, states, parserVars, indexVars, retrievalVars, pipelineVars>>

\* A POST /interpret with dream text is accepted and answered by the
\* orchestrator the request selects
Serve ==
    /\ app.pc = "serving"
    /\ app.served < MaxServed
    /\ \E system \in {"rag", "agentic"} :
       \E status \in Answers(IF system = "agentic" THEN app.agentic_system
                             ELSE app.rag_system) :
         app' = [app EXCEPT !.served = @ + 1, !.status = status]
    /\ UNCHANGED <<threads, states, parserVars, indexVars, retrievalVars, pipelineVars>>

\* The process has exited, or is stopped (Ctrl+C)
Stop ==
    /\ app.pc \in {"failed", "serving"}
    /\ app' = NoApp
    /\ UNCHANGED <<threads, states, parserVars, indexVars, retrievalVars, pipelineVars>>

StartupNext ==
    \/ Launch
    \/ InitVectorStore
    \/ InitRagPipeline
    \/ InitAgents
    \/ Main
    \/ Serve
    \/ Stop

StartupSpec == StartupInit /\ [][StartupNext]_vars

----------------------------------------------------------------------------
(* Two requests on the threaded server *)

ConcurrentInit ==
    /\ ServiceIdle
    /\ collection = {}
    /\ ret = NoCall
    /\ graph_aliases = FALSE
    /\ PipelineIdle
    /\ ParserIdle
    /\ IndexIdle

\* The handler calls interpret_dream of the selected orchestrator; the
\* agentic one builds initial_state
ThreadStart ==
    \E request \in Requests, system \in {"rag", "agentic"} :
        /\ threads[request].pc = "idle"
        /\ threads' = [threads EXCEPT ![request] =
                          [NoThread EXCEPT !.system = system,
                                           !.pc = IF system = "agentic" THEN EntryPoint
                                                  ELSE "rag_retrieve"]]
        /\ states' = [states EXCEPT ![StateOf(request)] = FreshState(request)]
        /\ UNCHANGED <<app, parserVars, indexVars, retrievalVars, pipelineVars>>

\* A node of the graph runs on the state of its invocation
ThreadNode ==
    \E request \in Requests :
        /\ threads[request].pc \in DOMAIN Edges
        /\ states' = [states EXCEPT ![StateOf(request)] =
                         AfterNode(@, threads[request].pc)]
        /\ threads' = [threads EXCEPT ![request].pc = NextNode(threads[request].pc)]
        /\ UNCHANGED <<app, parserVars, indexVars, retrievalVars, pipelineVars>>

\* workflow.invoke has returned final_state: the AgenticResponse is built
ThreadReturn ==
    \E request \in Requests :
        /\ threads[request].pc = "END"
        /\ threads' = [threads EXCEPT ![request] =
                          [@ EXCEPT !.pc = "done", !.status = 200,
                                    !.result = Origins(states[StateOf(request)],
                                                       ResultFields)]]
        /\ UNCHANGED <<states, app, parserVars, indexVars, retrievalVars, pipelineVars>>

\* RAGPipeline.interpret_dream, retrieval: context and source_docs are locals
\* computed from the dream text
ThreadRagRetrieve ==
    \E request \in Requests :
        /\ threads[request].pc = "rag_retrieve"
        /\ LET query == Origins(states[StateOf(request)], {"dream_text"})
           IN  states' = [states EXCEPT ![StateOf(request)] =
                             [@ EXCEPT !.research_context = query,
                                       !.retrieved_sources = query]]
        /\ threads' = [threads EXCEPT ![request].pc = "rag_generate"]
        /\ UNCHANGED <<app, parserVars, indexVars, retrievalVars, pipelineVars>>

\* RAGPipeline.interpret_dream, prompt, generation and parse: the RAGResponse
\* is built from the generated text and source_docs
ThreadRagGenerate ==
    \E request \in Requests :
        /\ threads[request].pc = "rag_generate"
        /\ threads' = [threads EXCEPT ![request] =
                          [@ EXCEPT !.pc = "done", !.status = 200,
                                    !.result = Origins(states[StateOf(request)],
                                        {"dream_text", "user_context",
                                         "research_context", "retrieved_sources"})]]
        /\ UNCHANGED <<states, app, parserVars, indexVars, retrievalVars, pipelineVars>>

\* An exception in a stage or a step: the handler answers 500
ThreadFail ==
    \E request \in Requests :
        /\ threads[request].pc \in DOMAIN Edges \cup {"rag_retrieve", "rag_generate"}
        /\ threads' = [threads EXCEPT ![request] = [@ EXCEPT !.pc = "done", !.status = 500]]
        /\ UNCHANGED <<states, app, parserVars, indexVars, retrievalVars, pipelineVars>>

\* The response is sent; the call's locals are gone
ThreadDone ==
    \E request \in Requests :
        /\ threads[request].pc = "done"
        /\ threads' = [threads EXCEPT ![request] = NoThread]
        /\ states' = [states EXCEPT ![StateOf(request)] = NoState]
        /\ UNCHANGED <<app, parserVars, indexVars, retrievalVars, pipelineVars>>

ConcurrentNext ==
    \/ ThreadStart
    \/ ThreadNode
    \/ ThreadReturn
    \/ ThreadRagRetrieve
    \/ ThreadRagGenerate
    \/ ThreadFail
    \/ ThreadDone

ConcurrentSpec == ConcurrentInit /\ [][ConcurrentNext]_vars

----------------------------------------------------------------------------
(* add_documents on a long chunk list *)

\* Lengths around the batch boundaries
BatchLengths ==
    {0, 1} \cup {b * batch_size + d : b \in 1..MaxBatches, d \in {-1, 0, 1}}

\* What the collection holds when the build starts: nothing, or one chunk
\* of the document left by an earlier build
EarlierRecords ==
    {{}} \cup {{LongChunk(k)} : k \in {0, batch_size - 1, batch_size, batch_size + 50}}

\* build_database.main has opened its manager and processed the directory;
\* it is about to call add_documents(chunks)
BatchInit ==
    /\ ServiceIdle
    /\ collection \in EarlierRecords
    /\ ret = NoCall
    /\ graph_aliases = FALSE
    /\ PipelineIdle
    /\ ParserIdle
    /\ index = IndexOf(collection)
    /\ reader = NoManager
    /\ build \in {[NoBuild EXCEPT
                      !.script = "main",
                      !.runs = 1,
                      !.embedding_function = SetupEmbeddingFunction(DefaultProvider, FALSE),
                      !.collection = IndexOf(collection).created,
                      !.chunks = LongChunks(n),
                      !.previous = collection,
                      !.pc = "add"] : n \in BatchLengths}
    /\ read = NoRead

BatchNext == BuildAddDocuments \/ BuildAddBatch \/ BuildExit

BatchSpec == BatchInit /\ [][BatchNext]_vars

----------------------------------------------------------------------------
(* Properties of retrieval *)

Ranked == ret.op \in {"hybrid_search", "get_context_for_query"}

Weight(result) == MetaGet(result.metadata, "weight", 1)

\* Source identifiers in ascending (lexicographic) order
SourceOrder == <<"R", "S", "T", "U">>

SourcePos(src) == CHOOSE i \in 1..Len(SourceOrder) : SourceOrder[i] = src

\* C5: the context string returned by get_context_for_query is never longer
\* than the character budget max_chars = max_tokens * 4.
ContextWithinBudget ==
    ret.op = "get_context_for_query" => Len(ret.context) <= ret.max_chars

\* C6: the returned source list holds exactly the results whose blocks were
\* included in the context (none when the first block exceeds the budget),
\* and concatenating those blocks reproduces the returned string.
SourcesAreIncludedBlocks ==
    ret.op = "get_context_for_query" =>
        /\ ret.sources = Take(ret.results, Len(ret.context_parts))
        /\ (ret.context = "" => ret.sources = <<>>)
        /\ Concat([i \in 1..Len(ret.sources) |-> ChunkText(i - 1, ret.sources[i])])
             = ret.context

\* C7: every list hybrid_search returns is ordered by final score
\* non-increasing, and each final score is the raw similarity times
\* (1 + the weight stored in the result's metadata).
RankedByFinalScore ==
    Ranked =>
        /\ \A i \in 1..(Len(ret.results) - 1) :
              ret.results[i].final_score >= ret.results[i + 1].final_score
        /\ \A i \in 1..Len(ret.results) :
              "weight" \in DOMAIN ret.results[i].metadata =>
                 ret.results[i].final_score
                   = ret.results[i].relevance_score * (10 + ret.results[i].metadata.weight)

\* C7 witness: a hybrid_search whose re-ranking moved a candidate ahead of one
\* the index had returned before it.
RerankChangedOrder ==
    /\ ret.op = "hybrid_search"
    /\ Len(ret.results) = 2
    /\ Len(ret.fetched) = 2
    /\ ret.results[1].id = ret.fetched[2].id
    /\ ret.results[1].final_score > ret.results[2].final_score
    /\ "weight" \in DOMAIN ret.results[1].metadata

\* C8: of two returned candidates with equal raw similarity, whatever its
\* value, the one with the higher credibility weight comes first.
HigherWeightRanksNoLower ==
    ret.op = "hybrid_search" =>
        \A i, j \in 1..Len(ret.results) :
            ( /\ ret.results[i].relevance_score = ret.results[j].relevance_score
              /\ Weight(ret.results[i]) > Weight(ret.results[j]) ) => i < j

\* C9: candidates with equal final score are ordered by raw similarity
\* descending, then by source identifier ascending, whatever order the index
\* returned them in.
TieBreakBySimilarityThenSource ==
    ret.op = "hybrid_search" =>
        \A i, j \in 1..Len(ret.results) :
            (i < j /\ ret.results[i].final_score = ret.results[j].final_score) =>
                \/ ret.results[i].relevance_score > ret.results[j].relevance_score
                \/ /\ ret.results[i].relevance_score = ret.results[j].relevance_score
                   /\ SourcePos(ret.results[i].metadata.source)
                        < SourcePos(ret.results[j].metadata.source)

\* C10: every relevance score similarity_search reports lies in [0,1]
\* (0..10 tenths), for every distance the index can return.
RelevanceInUnitInterval ==
    ret.op = "similarity_search" =>
        \A i \in 1..Len(ret.results) :
            /\ ret.results[i].relevance_score >= 0
            /\ ret.results[i].relevance_score <= 10

\* C27: the blocks get_context_for_query puts in the context are the formatted
\* blocks of the first n ranked results, whole and labelled Source 1..n in
\* rank order; they fit the budget together, and when n is less than the
\* number of results the block of result n+1 is the one that did not fit:
\* nothing after it is included.
ContextIsPrefixOfRanked ==
    ret.op = "get_context_for_query" =>
        LET n == Len(ret.context_parts)
        IN  /\ n <= Len(ret.results)
            /\ \A i \in 1..n : ret.context_parts[i] = ChunkText(i - 1, ret.results[i])
            /\ ret.context = Join(ret.context_parts, "\n")
            /\ Len(Concat(ret.context_parts)) <= ret.max_chars
            /\ n < Len(ret.results) =>
                  Len(Concat(ret.context_parts)) + Len(ChunkText(n, ret.results[n + 1]))
                      > ret.max_chars

\* the first block exceeded the budget and a smaller block ranked after it
\* would have fitted
SmallerBlockAfterStop ==
    /\ ret.op = "get_context_for_query"
    /\ ret.context_parts = <<>>
    /\ Len(ret.results) = 2
    /\ Len(ChunkText(1, ret.results[2])) <= ret.max_chars

\* the candidates of the last hybrid_search, scored as the re-ranking scores them
FetchedScored == WithFinalScore(SimilaritySearch(ret.fetched))

ReturnedIds == {ret.results[i].id : i \in 1..Len(ret.results)}

\* C26: hybrid_search(query, k) asks the index for 2k neighbours and returns
\* min(k, number fetched) of the fetched candidates; no candidate left out
\* has a higher final score than one returned, and with an allow-list every
\* returned result's category is in it.
HybridSearchReturnsBestOfFetched ==
    ret.op = "hybrid_search" =>
        /\ Len(ret.fetched)
             = Min(2 * ret.n_results,
                   Cardinality(Matching(collection, FilterDict(ret.categories))))
        /\ \A i \in 1..Len(ret.fetched) :
              \E r \in Matching(collection, FilterDict(ret.categories)) :
                  r.id = ret.fetched[i].id
        /\ Len(ret.results) = Min(ret.n_results, Len(ret.fetched))
        /\ \A i \in 1..Len(ret.results) :
              \E j \in 1..Len(FetchedScored) : ret.results[i] = FetchedScored[j]
        /\ \A i \in 1..Len(ret.results), j \in 1..Len(FetchedScored) :
              FetchedScored[j].id \notin ReturnedIds
                  => ret.results[i].final_score >= FetchedScored[j].final_score
        /\ ret.categories # {} =>
              \A i \in 1..Len(ret.results) :
                  /\ "category" \in DOMAIN ret.results[i].metadata
                  /\ ret.results[i].metadata.category \in ret.categories

\* a filtered hybrid_search for k = 1 that fetched two of three matching
\* records and returned the one the index had ranked second
SecondCandidateReturned ==
    /\ ret.op = "hybrid_search"
    /\ ret.categories # {}
    /\ ret.n_results = 1
    /\ Len(ret.fetched) = 2
    /\ Len(ret.results) = 1
    /\ Cardinality(Matching(collection, FilterDict(ret.categories))) > Len(ret.fetched)
    /\ ret.results[1].id = ret.fetched[2].id

----------------------------------------------------------------------------
(* Properties of the agentic pipeline and the handler *)

PipelineOrder ==
    <<"symbol_extractor", "research_retriever", "symbol_analyzer",
      "psychological_analyzer", "cultural_analyzer", "synthesis_agent">>

StepMarkers ==
    <<"start", "symbol_extraction", "research_retrieval", "symbol_analysis",
      "psychological_analysis", "cultural_analysis", "complete">>

IsPrefix(s, t) == Len(s) <= Len(t) /\ s = SubSeq(t, 1, Len(s))

\* C1: in every agentic run that completes, the six stages run exactly once
\* each in the fixed order and the step marker moves start -> symbol_extraction
\* -> research_retrieval -> symbol_analysis -> psychological_analysis ->
\* cultural_analysis -> complete; while a run is under way the stages run so
\* far are a prefix of that order.
StagesRunOnceInOrder ==
    /\ IsPrefix(obs.executed, PipelineOrder)
    /\ IsPrefix(obs.steps, StepMarkers)
    /\ (obs.executed # <<>> => Len(obs.steps) = Len(obs.executed) + 1)
    /\ (returned.kind = "AgenticResponse" =>
            /\ obs.executed = PipelineOrder
            /\ obs.steps = StepMarkers
            /\ state.current_step = "complete")

\* C1 witness: an agentic run that completed and was answered
AgenticRunCompleted ==
    /\ returned.kind = "AgenticResponse"
    /\ resp.success
    /\ Len(obs.executed) = 6

\* C2: when the call of a stage fails the request fails: the stages that ran
\* are exactly those before the failed one, no later stage can run, no
\* response object is returned and the caller gets one failure answer.
FailureAbortsRequest ==
    obs.failed_at \in {PipelineOrder[i] : i \in 1..6} =>
        /\ pc = "done"
        /\ returned = NoResult
        /\ resp.status = 500
        /\ ~resp.success
        /\ \E i \in 1..6 : /\ PipelineOrder[i] = obs.failed_at
                            /\ obs.executed = SubSeq(PipelineOrder, 1, i - 1)

\* C2 witness: the generation call of the fourth stage failed after three
\* stages had run
GenerationFailedMidRun ==
    /\ obs.failed_at = "psychological_analyzer"
    /\ Len(obs.executed) = 3
    /\ resp.status = 500

\* C3: the stage trace of a successful agentic run has exactly six entries,
\* one per stage, none duplicated.
TraceHasSixEntries ==
    returned.kind = "AgenticResponse" =>
        /\ Len(returned.agent_trace) = 6
        /\ \A i, j \in 1..Len(returned.agent_trace) :
              i # j => returned.agent_trace[i] # returned.agent_trace[j]

EmptyDreamText(data) ==
    \/ data.dream_text.t = "absent"
    \/ data.dream_text.t = "str" /\ data.dream_text.v = <<>>

\* C4: a request whose dream text is empty is rejected before any pipeline
\* stage, retrieval call or generation call runs, for either strategy.
EmptyDreamRejected ==
    (pc # "idle" /\ EmptyDreamText(req)) =>
        /\ pc = "done"
        /\ resp.status \in {400, 500}
        /\ ~resp.success
        /\ returned = NoResult
        /\ obs.executed = <<>>
        /\ obs.llm_calls = 0
        /\ obs.retrieval_calls = 0

\* C4 witness: an agentic request with empty dream text answered 400
EmptyAgenticRequestRefused ==
    /\ req.dream_text = Str(<<>>)
    /\ req.system = "agentic"
    /\ resp.status = 400
    /\ pc = "done"

\* the optional context fields as the bundled page sends them when left
\* blank (JSON null), or left out of the body
BlankContext(data) ==
    /\ data.age.t \in {"absent", "null"}
    /\ data.gender.t \in {"absent", "null"}
    /\ data.recent_events.t \in {"absent", "null"}

\* the handler itself answered 500: no stage and no retrieval had failed
FailedByHandler == resp = ServerError /\ obs.failed_at = "none"

\* C28: a request whose optional context fields are absent or null is not
\* failed by the handler when its dream text is non-empty, and is answered
\* with the 400 validation error when its dream text is empty.
BlankContextAccepted ==
    (pc # "idle" /\ BlankContext(req) /\ req.dream_text.t = "str") =>
        /\ Stripped(req.dream_text) # <<>> => ~FailedByHandler
        /\ Stripped(req.dream_text) = <<>> => resp = ValidationError

\* C29: once the prompt of the selected strategy is built, every value the
\* handler put into user_context is in it: each key the handler wrote is a
\* key the prompt reads, and the value read under it is the caller's.
SuppliedContextReachesPrompt ==
    obs.user_info.built =>
        \A key \in DOMAIN state.user_context :
            key \in PromptKeys /\ obs.user_info[key].t = "given"

----------------------------------------------------------------------------
(* Properties of start-up and of concurrent requests *)

\* C22: the web application serves only when the credentials of its
\* generation capability were present at start-up and its embedding function
\* is the one of the provider asked for; with the credentials missing,
\* initialization has failed and no request was accepted.
ServesOnlyWhenConfigured ==
    app.pc = "serving" =>
        /\ "ANTHROPIC_API_KEY" \in app.env
        /\ app.rag_system = "configured"
        /\ app.agentic_system = "configured"
        /\ app.embedding_function = "SentenceTransformerEmbeddingFunction"

\* C23: whatever the interleaving, the state a request's stages work on holds
\* only values computed from that request's dream text and context, and the
\* result returned for the request was computed from them alone.
RequestsAreIsolated ==
    \A request \in Requests :
        /\ threads[request].result \subseteq {request}
        /\ threads[request].pc # "idle" =>
              \A field \in StateFields : states[StateOf(request)][field] \subseteq {request}
        /\ (threads[request].pc = "done" /\ threads[request].status = 200) =>
              threads[request].result = {request}

\* two agentic runs in progress at once, each with outputs of its own stages
TwoRunsInterleaved ==
    /\ threads[1].pc = "synthesis_agent"
    /\ threads[2].pc = "symbol_analyzer"
    /\ states[StateOf(1)].cultural_analysis = {1}
    /\ states[StateOf(2)].research_context = {2}

----------------------------------------------------------------------------
(* Properties of add_documents *)

\* batches[1] \o ... \o batches[n]
RECURSIVE Flatten(_)
Flatten(batches) ==
    IF batches = <<>> THEN <<>> ELSE Head(batches) \o Flatten(Tail(batches))

DistinctIds(documents) ==
    \A i, j \in 1..Len(documents) : i # j => documents[i].id # documents[j].id

\* C30: the batches add_documents has submitted are non-empty, of at most 100
\* documents, and together are the documents in input order from the first
\* on, each once; when it has returned they are all the documents and, for
\* distinct identifiers on an empty collection, the collection holds exactly
\* those records; when a batch insert has failed nothing was submitted after
\* it, the error has left add_documents and the batches inserted before it
\* are still in the collection.
BatchesSubmittedOnceInOrder ==
    build.pc \in {"adding", "done"} =>
        LET sent == Flatten(build.submitted)
            inserted == Flatten(SubSeq(build.submitted, 1, Len(build.submitted) - 1))
        IN  /\ \A b \in 1..Len(build.submitted) :
                  /\ Len(build.submitted[b]) \in 1..batch_size
                  /\ b < Len(build.submitted) => Len(build.submitted[b]) = batch_size
            /\ Len(sent) <= Len(build.chunks)
            /\ sent = SubSeq(build.chunks, 1, Len(sent))
            /\ (build.pc = "done" /\ ~build.failed) =>
                  /\ sent = build.chunks
                  /\ (build.previous = {} /\ DistinctIds(build.chunks)) =>
                        collection = Range(build.chunks)
            /\ build.failed =>
                  /\ build.pc = "done"
                  /\ Range(inserted) \subseteq collection

\* add_documents has returned after three batches on an empty collection
ThreeBatchesAdded ==
    /\ build.pc = "done"
    /\ ~build.failed
    /\ build.previous = {}
    /\ Len(build.submitted) = 3
    /\ Cardinality(collection) = 2 * batch_size + 1

\* the second batch was rejected after the first had been inserted
SecondBatchFailed ==
    /\ build.pc = "done"
    /\ build.failed
    /\ Len(build.submitted) = 2
    /\ Cardinality(collection) = batch_size + 1

----------------------------------------------------------------------------
(* Properties of the two parsers *)

ParsedByRag == parsed.op = "_parse_llm_response"

ParsedBySynthesis == parsed.op = "synthesis_agent"

\* C11: whatever the generated text is, the confidence score that either
\* parser returns lies between 0 and 1 (0 and 100 hundredths).
ConfidenceInUnitInterval ==
    parsed.op # "none" => parsed.out.confidence_score \in 0..100

\* a text whose confidence section carries a percentage above 100 was parsed
OverHundredPercentParsed ==
    /\ ParsedByRag
    /\ Contains(parsed.out.confidence, <<"1", "5", "0", "%">>)

\* C12: the list of alternative interpretations that either parser returns
\* has at most three entries.
AtMostThreeAlternatives ==
    parsed.op # "none" => Len(parsed.out.alternative_interpretations) <= 3

\* the confidence section as the response wrote it: the lines under the
\* confidence header, without the initial value of the parser
WrittenConfidence(text) ==
    CleanUp(ParseLines(Split(text, "\n"), 1, None, SectionsWithEmptyConfidence)).confidence

\* the score the specification gives a confidence text: N/100 for an explicit
\* N%, else the keyword's score, else the default
ScoreOfConfidenceText(text, low, default) ==
    IF PercentMatch(text) # <<>> THEN ParseInt(PercentMatch(text))
    ELSE IF Contains(text, High) THEN 85
    ELSE IF Contains(text, Low) THEN low
    ELSE default

\* C13: in both orchestrators an explicit percentage N% in the confidence text
\* gives the score N/100; without one "High" gives 0.85 and "Low" gives 0.35
\* (RAG) or 0.4 (agentic); otherwise the default is 0.5 (RAG) or 0.7 (agentic).
PercentagePreferred ==
    /\ ParsedByRag =>
          parsed.out.confidence_score =
              ScoreOfConfidenceText(WrittenConfidence(llm_text), 35, 50)
    /\ ParsedBySynthesis =>
          parsed.out.confidence_score = ScoreOfConfidenceText(llm_text, 40, 70)

SectionHeaders ==
    {PRIMARY_INTERPRETATION, CONFIDENCE_LEVEL, CONFIDENCE, SCIENTIFIC_EVIDENCE,
     REASONING, ALTERNATIVE_INTERPRETATION, SOURCES_CITED, SOURCES}

NoSectionHeader(text) == \A header \in SectionHeaders : ~Contains(Upper(text), header)

\* C14: for a text with none of the section headers each parser returns its
\* default confidence (0.5 RAG, 0.7 agentic), no alternatives, and the empty
\* string for every section, the reasoning included.
HeaderlessTextGivesDefaults ==
    (parsed.op # "none" /\ NoSectionHeader(llm_text)) =>
        /\ parsed.out.confidence_score = (IF ParsedByRag THEN 50 ELSE 70)
        /\ parsed.out.alternative_interpretations = <<>>
        /\ parsed.out.reasoning = <<>>
        /\ ParsedByRag =>
              /\ parsed.out.primary_interpretation = <<>>
              /\ parsed.out.scientific_evidence = <<>>
              /\ parsed.out.sources_cited = <<>>

\* the lines of the text that lie in the alternatives section: the last
\* header line above them is the alternatives header
InAlternativesSection(lines, i) ==
    /\ NoSectionHeader(lines[i])
    /\ \E h \in 1..(i - 1) :
          /\ Contains(Upper(lines[h]), ALTERNATIVE_INTERPRETATION)
          /\ \A j \in (h + 1)..(i - 1) : NoSectionHeader(lines[j])

NumberedLine(line) ==
    Strip(line) # <<>> /\ Strip(line)[1] \in {"1", "2", "3", "4", "5", "6", "7", "8", "9"}

NumberedInAlternativesSection(text) ==
    LET lines == Split(text, "\n")
    IN  {i \in 1..Len(lines) : NumberedLine(lines[i]) /\ InAlternativesSection(lines, i)}

\* C25: either parser collects as alternatives only numbered lines between the
\* alternatives header and the next section header, so it returns no more
\* alternatives than there are such lines; a numbered line under a later
\* header is not among them.
AlternativesOnlyFromTheirSection ==
    parsed.op # "none" =>
        Len(parsed.out.alternative_interpretations)
            <= Cardinality(NumberedInAlternativesSection(llm_text))

\* the same for the parser of the RAG pipeline alone
RagAlternativesOnlyFromTheirSection ==
    ParsedByRag =>
        Len(parsed.out.alternative_interpretations)
            <= Cardinality(NumberedInAlternativesSection(llm_text))

----------------------------------------------------------------------------
(* Properties of symbol extraction and research retrieval *)

SymbolsExtracted == "symbol_extractor" \in {obs.executed[i] : i \in 1..Len(obs.executed)}

ResearchRetrieved == "research_retriever" \in {obs.executed[i] : i \in 1..Len(obs.executed)}

\* C15: after the symbol-extraction call answered with an empty text, the
\* symbol list in the state is the empty list and the next stage is research
\* retrieval.
EmptyResponseGivesNoSymbols ==
    (SymbolsExtracted /\ obs.symbols_text = <<>>) =>
        /\ state.dream_symbols = <<>>
        /\ pc = "research_retriever" \/ ResearchRetrieved
           \/ obs.failed_at = "research_retriever"

NoSymbols == \A i \in 1..Len(state.dream_symbols) : state.dream_symbols[i] = <<>>

\* C16: research retrieval never fails; its query is the dream text alone
\* when no symbols were extracted, and otherwise the dream text followed by the
\* first five symbols at most.
ResearchQueryWellFormed ==
    /\ obs.failed_at # "research_retriever"
    /\ ResearchRetrieved =>
          obs.search_query =
              IF NoSymbols THEN state.dream_text
              ELSE state.dream_text \o <<" ">> \o JoinWords(Take(state.dream_symbols, 5))

----------------------------------------------------------------------------
(* Properties of the collection under builds and queries *)

\* C17: a retrieval call on an empty or unreachable index returns an empty
\* result list and an empty context, and does not raise.
UnavailableIndexGivesEmpty ==
    (read.op # "none" /\ (~read.reachable \/ read.visible = {})) =>
        /\ ~read.raised
        /\ read.results = <<>>
        /\ read.context = ""

\* C18: when a run of the corpus build has added its chunks, every chunk is
\* in the collection with the content of this run, and no identifier has two
\* records: a chunk whose identifier was already stored replaced the record.
LastWriteWins ==
    (build.script = "main" /\ build.pc = "done" /\ build.collection # 0) =>
        /\ \A chunk \in Range(build.chunks) : chunk \in collection
        /\ \A a, b \in collection : a.id = b.id => a = b

\* C19: a query is embedded with the function that embedded the records of
\* the collection it searches.
QueryUsesIndexEmbedding ==
    (read.op # "none" /\ read.embedded_with # "none") =>
        read.embedding_function = read.embedded_with

\* C20: a query made while build_vector_database rebuilds the collection
\* reaches the index and finds either all the records the collection held
\* before the rebuild or all the records of the rebuild.
NoPartialRebuildVisible ==
    (read.op # "none" /\ read.rebuilding) =>
        /\ read.reachable
        /\ read.visible \in {read.previous, read.rebuilt}

----------------------------------------------------------------------------
(* Stage outputs *)

\* C21: a step taken by a stage changes, of the analysis state, only that
\* stage's own output fields, the step marker and the trace: dream text, user
\* context and every other stage's output keep their values, and the final
\* interpretation, confidence, alternatives and reasoning change only in the
\* step of the synthesis stage.
StagesWriteOnlyOwnOutput ==
    [][\A field \in DOMAIN state :
          (pc \in DOMAIN Edges /\ field \notin OutputFields(pc) \cup StepAndTrace)
              => (state'[field] = state[field])]_vars

\* A run in which every stage has produced a non-empty output.
AllStagesProducedOutput ==
    /\ pc = "END"
    /\ state.dream_symbols # <<>>
    /\ state.retrieved_sources # <<>>
    /\ state.symbol_analysis = "x"
    /\ state.psychological_analysis = "x"
    /\ state.cultural_analysis = "x"
    /\ state.final_interpretation # <<>>

----------------------------------------------------------------------------
(* Generation calls *)

\* C24: in an agentic run every stage that has executed has issued exactly one
\* generation call, so the number of calls issued equals the number of stages
\* executed (six when the run completes), none of them issued twice.
EveryStageIssuesOneLlmCall ==
    pc \in DOMAIN Edges \cup {"END"} => obs.llm_calls = Len(obs.executed)

====
